---------------------------- MODULE Spec2Model ----------------------------
(***************************************************************************)
(* A model of computation/python/python-3.6/app.py: a socketserver         *)
(* TCPServer whose handler do_GET parses the "iterations" query parameter, *)
(* runs calc_pi (Leibniz series in binary64 arithmetic) and writes the     *)
(* float's repr as a text/plain body.                                      *)
(*                                                                         *)
(* Part 1: natural numbers of arbitrary size (the integer arithmetic that  *)
(*         binary64 rounding and float repr are defined by).               *)
(* Part 2: binary64 floats: conversion from int, +, -, *, /, repr.         *)
(* Part 3: strings as sequences of characters: urlparse, parse_qs, int.    *)
(* Part 4: calc_pi and do_GET as step functions, the server loop.          *)
(* Part 5: the properties.                                                 *)
(***************************************************************************)
EXTENDS Integers, Sequences, FiniteSets, TLC

(***************************************************************************)
(* Python evaluates an argument once, before the call, and a local         *)
(* variable once, at its assignment.  Bind(e, F) is F applied to the       *)
(* value of e, which is computed once however often F uses it.             *)
(***************************************************************************)
Only(S) == CHOOSE v \in S : TRUE

Bind(e, F(_)) == Only({F(v) : v \in {e}})

Bind2(e1, e2, F(_, _)) == Only({F(v[1], v[2]) : v \in {<<e1, e2>>}})

Bind3(e1, e2, e3, F(_, _, _)) ==
    Only({F(v[1], v[2], v[3]) : v \in {<<e1, e2, e3>>}})

(***************************************************************************)
(* Part 1.  Naturals as little-endian sequences of limbs in base 2^15,     *)
(* without high zero limbs (zero is the empty sequence).                   *)
(***************************************************************************)
LimbBits == 15
LimbBase == 32768

Min(a, b) == IF a <= b THEN a ELSE b

RECURSIVE Pow2(_)
Pow2(n) == IF n = 0 THEN 1 ELSE 2 * Pow2(n - 1)

RECURSIVE BNorm(_)
BNorm(a) ==
    Bind(a, LAMBDA v :
        IF v = <<>> THEN <<>>
        ELSE IF v[Len(v)] = 0 THEN BNorm(SubSeq(v, 1, Len(v) - 1))
        ELSE v)

RECURSIVE BFromInt(_)
BFromInt(n) ==
    IF n = 0 THEN <<>>
    ELSE <<n % LimbBase>> \o BFromInt(n \div LimbBase)

BLimb(a, i) == IF i >= 1 /\ i <= Len(a) THEN a[i] ELSE 0

RECURSIVE BAddC(_, _, _, _)
BAddC(a, b, i, carry) ==
    IF i > Len(a) /\ i > Len(b)
    THEN IF carry = 0 THEN <<>> ELSE <<carry>>
    ELSE Bind(BLimb(a, i) + BLimb(b, i) + carry, LAMBDA s :
             <<s % LimbBase>> \o BAddC(a, b, i + 1, s \div LimbBase))

BAdd(a, b) == Bind2(a, b, LAMBDA x, y : BAddC(x, y, 1, 0))

\* a - b for a >= b
RECURSIVE BSubC(_, _, _, _)
BSubC(a, b, i, borrow) ==
    IF i > Len(a) THEN <<>>
    ELSE Bind(BLimb(a, i) - BLimb(b, i) - borrow, LAMBDA s :
             IF s < 0
             THEN <<s + LimbBase>> \o BSubC(a, b, i + 1, 1)
             ELSE <<s>> \o BSubC(a, b, i + 1, 0))

BSub(a, b) == Bind2(a, b, LAMBDA x, y : BNorm(BSubC(x, y, 1, 0)))

\* -1, 0, 1 as a < b, a = b, a > b
RECURSIVE BCmpAt(_, _, _)
BCmpAt(a, b, i) ==
    IF i = 0 THEN 0
    ELSE IF a[i] < b[i] THEN -1
    ELSE IF a[i] > b[i] THEN 1
    ELSE BCmpAt(a, b, i - 1)

BCmp(a, b) ==
    Bind2(a, b, LAMBDA x, y :
        IF Len(x) < Len(y) THEN -1
        ELSE IF Len(x) > Len(y) THEN 1
        ELSE BCmpAt(x, y, Len(x)))

\* a * k for 0 <= k <= LimbBase
RECURSIVE BMulSmallC(_, _, _, _)
BMulSmallC(a, k, i, carry) ==
    IF i > Len(a)
    THEN IF carry = 0 THEN <<>> ELSE <<carry>>
    ELSE Bind(a[i] * k + carry, LAMBDA s :
             <<s % LimbBase>> \o BMulSmallC(a, k, i + 1, s \div LimbBase))

BMulSmall(a, k) == Bind2(a, k, LAMBDA x, m : BNorm(BMulSmallC(x, m, 1, 0)))

BZeros(n) == [i \in 1..n |-> 0]

\* a * 2^n
BShl(a, n) ==
    Bind2(a, n, LAMBDA x, m :
        IF x = <<>> THEN <<>>
        ELSE BZeros(m \div LimbBits) \o BMulSmall(x, Pow2(m % LimbBits)))

\* a \div 2^n
BShr(a, n) ==
    Bind2(a, n, LAMBDA x, m :
        Bind2(m \div LimbBits, Pow2(m % LimbBits), LAMBDA k, s :
            IF k >= Len(x) THEN <<>>
            ELSE BNorm([i \in 1..(Len(x) - k) |->
                          (x[i + k] \div s)
                             + (BLimb(x, i + k + 1) % s) * (LimbBase \div s)])))

\* a % 2^n
BLow(a, n) == Bind2(a, n, LAMBDA x, m : BSub(x, BShl(BShr(x, m), m)))

RECURSIVE BitLenSmall(_)
BitLenSmall(n) == IF n = 0 THEN 0 ELSE 1 + BitLenSmall(n \div 2)

BBitLen(a) ==
    Bind(a, LAMBDA x :
        IF x = <<>> THEN 0
        ELSE (Len(x) - 1) * LimbBits + BitLenSmall(x[Len(x)]))

\* bit i of a, the lowest being bit 0
BBit(a, i) ==
    Bind2(a, i, LAMBDA x, k :
        (BLimb(x, (k \div LimbBits) + 1) \div Pow2(k % LimbBits)) % 2)

RECURSIVE BMulAt(_, _, _)
BMulAt(a, b, i) ==
    IF i > Len(b) THEN <<>>
    ELSE BAdd(BZeros(i - 1) \o BMulSmall(a, b[i]), BMulAt(a, b, i + 1))

BMul(a, b) == Bind2(a, b, LAMBDA x, y : BNorm(BMulAt(x, y, 1)))

\* long division by d, one bit of the quotient: [q, r] becomes
\* [2q + 1, 2r - d] or [2q, 2r]
BDivStep(d, st) ==
    Bind2(BMulSmall(st.q, 2), BMulSmall(st.r, 2), LAMBDA q2, r2 :
        IF BCmp(r2, d) >= 0
        THEN [q |-> BAdd(q2, <<1>>), r |-> BSub(r2, d)]
        ELSE [q |-> q2, r |-> r2])

\* k steps of the long division, as two runs of about k/2 steps
RECURSIVE BDivShiftAt(_, _, _)
BDivShiftAt(d, k, st) ==
    IF k = 0 THEN st
    ELSE IF k = 1 THEN BDivStep(d, st)
    ELSE Bind(BDivShiftAt(d, k \div 2, st), LAMBDA half :
             BDivShiftAt(d, k - (k \div 2), half))

\* a * 2^k divided by d for a < 2 * d: [q, r] with a * 2^k = q*d + r
BDivShift(a, d, k) ==
    Bind3(a, d, k, LAMBDA x, y, n :
        IF BCmp(x, y) >= 0
        THEN BDivShiftAt(y, n, [q |-> <<1>>, r |-> BSub(x, y)])
        ELSE BDivShiftAt(y, n, [q |-> <<>>, r |-> x]))

(***************************************************************************)
(* Part 2.  Python floats are IEEE 754 binary64.  A float is               *)
(* [sign, mant, exp] of value (-1)^sign * mant * 2^exp, with mant = 0 or   *)
(* 2^52 <= mant < 2^53.  Every operation is the exact result rounded to    *)
(* nearest, ties to even.  Infinities, NaN and subnormals are not          *)
(* represented: calc_pi's values stay within [2^-1000, 4].                 *)
(***************************************************************************)
MantBits == 53

FZero(sign) == [sign |-> sign, mant |-> <<>>, exp |-> 0]

FIsZero(a) == a.mant = <<>>

\* n * 2^e for n of more than MantBits bits, len of them: the low drop bits
\* are rounded away
FRoundDrop(sign, n, e, len) ==
    Bind2(len - MantBits, BShr(n, len - MantBits), LAMBDA drop, q :
        Bind(BCmp(BLow(n, drop), BShl(<<1>>, drop - 1)), LAMBDA c :
            Bind(IF c > 0 \/ (c = 0 /\ BBit(q, 0) = 1) THEN BAdd(q, <<1>>) ELSE q,
                 LAMBDA q2 :
                IF BBitLen(q2) > MantBits
                THEN [sign |-> sign, mant |-> BShr(q2, 1), exp |-> e + drop + 1]
                ELSE [sign |-> sign, mant |-> q2, exp |-> e + drop])))

\* the exact value n * 2^e, rounded to MantBits bits
FRound(sign, n, e) ==
    Bind3(sign, n, e, LAMBDA sg, m, x :
        Bind(BBitLen(m), LAMBDA len :
            IF m = <<>> THEN FZero(sg)
            ELSE IF len <= MantBits
            THEN [sign |-> sg, mant |-> BShl(m, MantBits - len),
                  exp |-> x - (MantBits - len)]
            ELSE FRoundDrop(sg, m, x, len)))

\* float(n) for a Python int n
FFromInt(n) ==
    IF n < 0 THEN FRound(1, BFromInt(0 - n), 0) ELSE FRound(0, BFromInt(n), 0)

FNeg(a) == Bind(a, LAMBDA x : [x EXCEPT !.sign = 1 - x.sign])

\* a + b for a, b # 0: the mantissas brought to the lower exponent e
FAddAligned(a, b, e) ==
    Bind2(BShl(a.mant, a.exp - e), BShl(b.mant, b.exp - e), LAMBDA am, bm :
        Bind(BCmp(am, bm), LAMBDA c :
            IF a.sign = b.sign THEN FRound(a.sign, BAdd(am, bm), e)
            ELSE IF c = 0 THEN FZero(0)
            ELSE IF c > 0 THEN FRound(a.sign, BSub(am, bm), e)
            ELSE FRound(b.sign, BSub(bm, am), e)))

FAdd(a, b) ==
    Bind2(a, b, LAMBDA x, y :
        IF FIsZero(x) /\ FIsZero(y)
        THEN FZero(IF x.sign = y.sign THEN x.sign ELSE 0)
        ELSE IF FIsZero(x) THEN y
        ELSE IF FIsZero(y) THEN x
        ELSE FAddAligned(x, y, Min(x.exp, y.exp)))

FSub(a, b) == FAdd(a, FNeg(b))

FMul(a, b) ==
    Bind2(a, b, LAMBDA x, y :
        IF FIsZero(x) \/ FIsZero(y) THEN FZero((x.sign + y.sign) % 2)
        ELSE FRound((x.sign + y.sign) % 2, BMul(x.mant, y.mant), x.exp + y.exp))

\* a / b for b # 0 (Python raises ZeroDivisionError for b = 0): the quotient of
\* the mantissas to MantBits + 2 bits or more, and one more bit that says
\* whether the division left a remainder
FDiv(a, b) ==
    Bind2(a, b, LAMBDA x, y :
        IF FIsZero(x) THEN FZero((x.sign + y.sign) % 2)
        ELSE Bind(BDivShift(x.mant, y.mant, MantBits + 2), LAMBDA dm :
                 FRound((x.sign + y.sign) % 2,
                        BAdd(BMulSmall(dm.q, 2), IF dm.r = <<>> THEN <<>> ELSE <<1>>),
                        x.exp - y.exp - (MantBits + 3))))

(***************************************************************************)
(* repr(float), which str(float) is: the shortest string of decimal digits *)
(* that rounds back to the same float, the one closest to the float's      *)
(* value among the shortest (free-format printing: the value is r/s, the   *)
(* half gaps to the neighbouring floats are mp/s above and mm/s below).    *)
(***************************************************************************)
DigitChar == <<"0", "1", "2", "3", "4", "5", "6", "7", "8", "9">>

\* floor(n / s) for n < 10 * s
DigitOf(n, s) ==
    Bind2(n, s, LAMBDA x, y :
        CHOOSE d \in 0..9 : /\ BCmp(BMulSmall(y, d), x) <= 0
                            /\ BCmp(BMulSmall(y, d + 1), x) > 0)

ReprStart(a) ==
    Bind(a, LAMBDA x :
        LET pow2 == x.mant = BShl(<<1>>, MantBits - 1)
            be   == IF x.exp >= 0 THEN BShl(<<1>>, x.exp) ELSE <<1>>
            den  == IF x.exp >= 0 THEN <<1>> ELSE BShl(<<1>>, 0 - x.exp)
            f    == IF pow2 THEN 4 ELSE 2
        IN  [r  |-> BMulSmall(BMul(x.mant, be), f),
             s  |-> BMulSmall(den, f),
             mp |-> IF pow2 THEN BMulSmall(be, 2) ELSE be,
             mm |-> be,
             k  |-> 0,
             even |-> BBit(x.mant, 0) = 0,
             digits |-> <<>>,
             done |-> FALSE])

ReprTooLow(st) ==
    Bind(st, LAMBDA t :
        IF t.even THEN BCmp(BAdd(t.r, t.mp), t.s) >= 0
        ELSE BCmp(BAdd(t.r, t.mp), t.s) > 0)

ReprTimes10(st) ==
    Bind(st, LAMBDA t :
        [t EXCEPT !.r = BMulSmall(t.r, 10), !.mp = BMulSmall(t.mp, 10),
                  !.mm = BMulSmall(t.mm, 10), !.k = t.k - 1])

\* the decimal exponent k: the value and its upper half gap lie below 10^k
\* and not below 10^(k-1)
RECURSIVE ReprScaleUp(_)
ReprScaleUp(st) ==
    Bind(st, LAMBDA t :
        IF ReprTooLow(t)
        THEN ReprScaleUp([t EXCEPT !.s = BMulSmall(t.s, 10), !.k = t.k + 1])
        ELSE t)

RECURSIVE ReprScaleDown(_)
ReprScaleDown(st) ==
    Bind(st, LAMBDA t :
        Bind(ReprTimes10(t), LAMBDA t10 :
            IF ReprTooLow(t10) THEN t ELSE ReprScaleDown(t10)))

\* the last digit, if d or d + 1 is it: what is left, rem/s, is within the
\* gap below (tc1) or above (tc2); <<>> if there are more digits to come
ReprDigit(t, d, rem) ==
    LET tc1 == IF t.even THEN BCmp(rem, t.mm) <= 0 ELSE BCmp(rem, t.mm) < 0
        tc2 == IF t.even THEN BCmp(BAdd(rem, t.mp), t.s) >= 0
               ELSE BCmp(BAdd(rem, t.mp), t.s) > 0
    IN  IF tc1 /\ ~tc2 THEN <<d>>
        ELSE IF ~tc1 /\ tc2 THEN <<d + 1>>
        ELSE IF tc1 /\ tc2
        THEN IF BCmp(BMulSmall(rem, 2), t.s) < 0 THEN <<d>> ELSE <<d + 1>>
        ELSE <<>>

\* one more digit
ReprStep(st) ==
    Bind(ReprTimes10(st), LAMBDA t :
        Bind(DigitOf(t.r, t.s), LAMBDA d :
            Bind(BSub(t.r, BMulSmall(t.s, d)), LAMBDA rem :
                Bind(ReprDigit(t, d, rem), LAMBDA last :
                    IF last = <<>>
                    THEN [t EXCEPT !.r = rem, !.digits = Append(@, d)]
                    ELSE [t EXCEPT !.digits = @ \o last, !.done = TRUE]))))

\* at most n more digits, as two runs of about n/2
RECURSIVE ReprRun(_, _)
ReprRun(st, n) ==
    Bind2(st, n, LAMBDA t, m :
        IF t.done \/ m = 0 THEN t
        ELSE IF m = 1 THEN ReprStep(t)
        ELSE Bind(ReprRun(t, m \div 2), LAMBDA half : ReprRun(half, m - (m \div 2))))

\* the shortest digits of a binary64 float are 17 at most
ReprMaxDigits == 17

ReprGenerate(st) == ReprRun(st, ReprMaxDigits).digits

RECURSIVE DigitsStrAt(_, _)
DigitsStrAt(ds, i) ==
    IF i > Len(ds) THEN "" ELSE DigitChar[ds[i] + 1] \o DigitsStrAt(ds, i + 1)

DigitsStr(ds) == Bind(ds, LAMBDA v : DigitsStrAt(v, 1))

RECURSIVE IntStr(_)
IntStr(n) ==
    IF n < 10 THEN DigitChar[n + 1]
    ELSE IntStr(n \div 10) \o DigitChar[(n % 10) + 1]

\* Python's layout of the digits ds with the decimal point after the first
\* decpt of them: fixed notation for -4 < decpt <= 16, "e" notation otherwise
ReprLayout(ds, decpt) ==
    Bind2(ds, decpt, LAMBDA v, p :
        LET n == Len(v)
            x == p - 1
        IN  IF p <= 0 - 4 \/ p > 16
            THEN DigitsStr(<<v[1]>>)
                 \o (IF n > 1 THEN "." \o DigitsStr(Tail(v)) ELSE "")
                 \o "e" \o (IF x < 0 THEN "-" ELSE "+")
                 \o (IF x < 10 /\ x > 0 - 10 THEN "0" ELSE "")
                 \o IntStr(IF x < 0 THEN 0 - x ELSE x)
            ELSE IF p <= 0
            THEN "0." \o DigitsStr(BZeros(0 - p)) \o DigitsStr(v)
            ELSE IF p >= n
            THEN DigitsStr(v) \o DigitsStr(BZeros(p - n)) \o ".0"
            ELSE DigitsStr(SubSeq(v, 1, p)) \o "." \o DigitsStr(SubSeq(v, p + 1, n)))

FRepr(a) ==
    Bind(a, LAMBDA x :
        (IF x.sign = 1 THEN "-" ELSE "")
        \o (IF FIsZero(x) THEN "0.0"
            ELSE Bind(ReprScaleDown(ReprScaleUp(ReprStart(x))), LAMBDA st :
                     ReprLayout(ReprGenerate(st), st.k))))

(***************************************************************************)
(* Part 3.  Strings whose characters are inspected are sequences of        *)
(* one-character strings.  urlparse and parse_qs are urllib.parse's, int   *)
(* is the builtin; each is modelled by what it does to the characters.     *)
(***************************************************************************)
\* the printable ASCII characters, code 32 first (the double quote, the
\* backslash and the grave accent as tokens)
AsciiTable ==
    <<" ", "!", "<quot>", "#", "$", "%", "&", "'", "(", ")", "*", "+", ",",
      "-", ".", "/", "0", "1", "2", "3", "4", "5", "6", "7", "8", "9", ":",
      ";", "<", "=", ">", "?", "@", "A", "B", "C", "D", "E", "F", "G", "H",
      "I", "J", "K", "L", "M", "N", "O", "P", "Q", "R", "S", "T", "U", "V",
      "W", "X", "Y", "Z", "[", "<bslash>", "]", "^", "_", "<grave>", "a", "b", "c",
      "d", "e", "f", "g", "h", "i", "j", "k", "l", "m", "n", "o", "p", "q",
      "r", "s", "t", "u", "v", "w", "x", "y", "z", "{", "|", "}", "~">>

HexDigits == <<"0", "1", "2", "3", "4", "5", "6", "7", "8", "9",
               "a", "b", "c", "d", "e", "f">>
HexUpper  == <<"0", "1", "2", "3", "4", "5", "6", "7", "8", "9",
               "A", "B", "C", "D", "E", "F">>

IsHex(c) == \E i \in 1..16 : HexDigits[i] = c \/ HexUpper[i] = c

HexVal(c) == (CHOOSE i \in 1..16 : HexDigits[i] = c \/ HexUpper[i] = c) - 1

\* the character of a byte: printable ASCII as itself; the other bytes as
\* one token per class (white space, other control characters, and the
\* replacement character that decoding a byte above 127 on its own gives)
Chr(code) ==
    IF code >= 32 /\ code <= 126 THEN AsciiTable[code - 31]
    ELSE IF code >= 9 /\ code <= 13 THEN "<ws>"
    ELSE IF code < 128 THEN "<ctl>"
    ELSE "<U+FFFD>"

\* the index of the first c in s from position i on, 0 if there is none
RECURSIVE Find(_, _, _)
Find(s, c, i) ==
    IF i > Len(s) THEN 0
    ELSE IF s[i] = c THEN i
    ELSE Find(s, c, i + 1)

\* s.split(c): the pieces of s between the occurrences of c
RECURSIVE Split(_, _)
Split(s, c) ==
    Bind(s, LAMBDA x :
        Bind(Find(x, c, 1), LAMBDA i :
            IF i = 0 THEN <<x>>
            ELSE <<SubSeq(x, 1, i - 1)>> \o Split(SubSeq(x, i + 1, Len(x)), c)))

\* s.split(c, 1): s cut at the first c, or s alone
Split1(s, c) ==
    Bind(s, LAMBDA x :
        Bind(Find(x, c, 1), LAMBDA i :
            IF i = 0 THEN <<x>>
            ELSE <<SubSeq(x, 1, i - 1), SubSeq(x, i + 1, Len(x))>>))

\* the end of the network location of a url that starts with "//": the first
\* of "/", "?", "#" from position 3 on
RECURSIVE NetlocEnd(_, _)
NetlocEnd(s, i) ==
    IF i > Len(s) THEN i
    ELSE IF s[i] \in {"/", "?", "#"} THEN i
    ELSE NetlocEnd(s, i + 1)

\* urlparse(url).query for a url without a scheme (a request target starts
\* with "/", which no scheme contains): the network location and the
\* fragment are cut off, the query is what follows the first "?"
UrlQuery(url) ==
    Bind(url, LAMBDA u :
        Bind(IF Len(u) >= 2 /\ u[1] = "/" /\ u[2] = "/"
             THEN SubSeq(u, NetlocEnd(u, 3), Len(u))
             ELSE u, LAMBDA u1 :
            Bind(Split1(Split1(u1, "#")[1], "?"), LAMBDA qs :
                IF Len(qs) = 2 THEN qs[2] ELSE <<>>)))

\* s.replace("+", " ")
PlusToSpace(s) ==
    Bind(s, LAMBDA x : [i \in 1..Len(x) |-> IF x[i] = "+" THEN " " ELSE x[i]])

\* unquote(s): every "%" followed by two hexadecimal digits becomes the
\* character of that byte, every other character stays
RECURSIVE UnquoteAt(_, _)
UnquoteAt(s, i) ==
    IF i > Len(s) THEN <<>>
    ELSE IF s[i] = "%" /\ Len(s) >= i + 2 /\ IsHex(s[i + 1]) /\ IsHex(s[i + 2])
    THEN <<Chr(16 * HexVal(s[i + 1]) + HexVal(s[i + 2]))>> \o UnquoteAt(s, i + 3)
    ELSE <<s[i]>> \o UnquoteAt(s, i + 1)

Unquote(s) == Bind(s, LAMBDA x : UnquoteAt(x, 1))

\* a parse_qsl that keeps the fields with an empty value
\* (keep_blank_values=True)
RECURSIVE QslOfKeepBlank(_)
QslOfKeepBlank(fields) ==
    Bind(fields, LAMBDA fs :
        IF fs = <<>> THEN <<>>
        ELSE Bind(Split1(fs[1], "="), LAMBDA nv :
                 IF Len(nv) = 2
                 THEN <<[name  |-> Unquote(PlusToSpace(nv[1])),
                         value |-> Unquote(PlusToSpace(nv[2]))]>>
                          \o QslOfKeepBlank(Tail(fs))
                 ELSE QslOfKeepBlank(Tail(fs))))

\* parse_qsl(qs): the (name, value) pairs of the fields of qs, in order; a
\* field that is empty, has no "=" or has an empty value is skipped
\* (keep_blank_values is False, strict_parsing is False)
RECURSIVE QslOf(_)
QslOf(fields) ==
    Bind(fields, LAMBDA fs :
        IF fs = <<>> THEN <<>>
        ELSE Bind(Split1(fs[1], "="), LAMBDA nv :
                 IF Len(nv) = 2 /\ Len(nv[2]) > 0
                 THEN <<[name  |-> Unquote(PlusToSpace(nv[1])),
                         value |-> Unquote(PlusToSpace(nv[2]))]>> \o QslOf(Tail(fs))
                 ELSE QslOf(Tail(fs))))

\* the fields are the pieces between the "&" (a Python before 3.6.13 cuts at
\* ";" as well; the queries of this model hold no ";")
parse_qsl(qs) == Bind(qs, LAMBDA q : IF q = <<>> THEN <<>> ELSE QslOf(Split(q, "&")))

\* parse_qs(qs)[name] as the list of the values of name in their order in qs;
\* the empty list stands for a name that is no key of the dictionary
RECURSIVE ValuesOf(_, _)
ValuesOf(pairs, name) ==
    Bind(pairs, LAMBDA ps :
        IF ps = <<>> THEN <<>>
        ELSE IF ps[1].name = name
        THEN <<ps[1].value>> \o ValuesOf(Tail(ps), name)
        ELSE ValuesOf(Tail(ps), name))

parse_qs(qs) == parse_qsl(qs)

IsSpace(c) == c \in {" ", "<ws>"}

IsDigit(c) == \E d \in 1..10 : DigitChar[d] = c

DigitVal(c) == (CHOOSE d \in 1..10 : DigitChar[d] = c) - 1

RECURSIVE LStrip(_)
LStrip(s) ==
    Bind(s, LAMBDA x : IF x # <<>> /\ IsSpace(x[1]) THEN LStrip(Tail(x)) ELSE x)

RECURSIVE RStrip(_)
RStrip(s) ==
    Bind(s, LAMBDA x :
        IF x # <<>> /\ IsSpace(x[Len(x)]) THEN RStrip(SubSeq(x, 1, Len(x) - 1)) ELSE x)

\* the value of a string of digits and underscores, read from the left
RECURSIVE DigitsValue(_, _)
DigitsValue(s, acc) ==
    Bind2(s, acc, LAMBDA x, a :
        IF x = <<>> THEN a
        ELSE IF x[1] = "_" THEN DigitsValue(Tail(x), a)
        ELSE DigitsValue(Tail(x), 10 * a + DigitVal(x[1])))

\* int(s) for a str s, base 10: white space around, an optional sign, then
\* digits, single underscores allowed between digits.  ok = FALSE is the
\* ValueError.
IntOfStr(s) ==
    Bind(RStrip(LStrip(s)), LAMBDA t :
        LET sgn  == t # <<>> /\ t[1] \in {"+", "-"}
            body == IF sgn THEN Tail(t) ELSE t
            n    == Len(body)
            ok   == /\ n > 0
                    /\ \A i \in 1..n : IsDigit(body[i]) \/ body[i] = "_"
                    /\ body[1] # "_" /\ body[n] # "_"
                    /\ \A i \in 1..(n - 1) : ~(body[i] = "_" /\ body[i + 1] = "_")
            v    == DigitsValue(body, 0)
        IN  IF ~ok THEN [ok |-> FALSE, val |-> 0]
            ELSE [ok |-> TRUE, val |-> IF sgn /\ t[1] = "-" THEN 0 - v ELSE v])

(***************************************************************************)
(* Part 4.  The program.  A request is a connection that carries one       *)
(* HTTP/1.x GET request line; its target is what the handler reads as      *)
(* self.path.  req is the list of the connections made so far, backlog     *)
(* the listen queue of the server's socket, cur the connection the server  *)
(* is inside finish_request for (0 while it waits in serve_forever).       *)
(***************************************************************************)
VARIABLES req, backlog, cur

vars == <<req, backlog, cur>>

\* the bounds of the three input domains
MaxRequests == 2
MaxPairs == 2
MaxIter == 12
MaxNeg == 3

\* line 11: the default [1] of query_components.get
DefaultIterations == 1

NoFloat == FZero(0)

\* the locals of a call of calc_pi; live is FALSE while there is no call
NoFrame ==
    [live |-> FALSE, iterations |-> 0, pi |-> NoFloat, denominator |-> NoFloat, x |-> 0]

NewRequest(t) ==
    [target |-> t, st |-> "queued", pc |-> "",
     query_components |-> <<>>, iterations |-> 0, raised |-> "",
     frame |-> NoFrame, calls |-> 0, result |-> NoFloat,
     headers_buffer |-> <<>>, wire |-> <<>>]

Item(kind, text) == [kind |-> kind, text |-> text]

(* lines 19-29: calc_pi *)

\* a calc_pi whose accumulator outlives the call (a module-level pi that
\* is not reset)
CalcPiInitStale(n) ==
    [live |-> TRUE, iterations |-> n,
     pi |-> IF cur > 1 THEN req[cur - 1].frame.pi ELSE FZero(0),
     denominator |-> FFromInt(1), x |-> 0]

\* lines 20-21
CalcPiInit(n) ==
    [live |-> TRUE, iterations |-> n, pi |-> FZero(0),
     denominator |-> FFromInt(1), x |-> 0]

\* a loop that runs for x = 0, ..., iterations (range(iterations + 1))
CalcPiMoreInclusive(f) == f.x <= f.iterations

\* line 22: range(iterations) has a next index, x; x counts the passes made
CalcPiMore(f) == f.x < f.iterations

\* lines 23-26
CalcPiTerm(f) ==
    IF f.x % 2 = 0
    THEN FAdd(f.pi, FDiv(FFromInt(1), f.denominator))
    ELSE FSub(f.pi, FDiv(FFromInt(1), f.denominator))

\* a denominator that advances by 1
CalcPiAdvanceByOne(f) == FAdd(f.denominator, FFromInt(1))

\* line 27
CalcPiAdvance(f) == FAdd(f.denominator, FFromInt(2))

\* lines 23-27: one pass of the loop
CalcPiBody(f) ==
    [f EXCEPT !.pi = CalcPiTerm(f), !.denominator = CalcPiAdvance(f), !.x = f.x + 1]

\* lines 28-29
CalcPiResult(f) == FMul(f.pi, FFromInt(4))

(* lines 8-17: do_GET *)

Iterations == <<"i", "t", "e", "r", "a", "t", "i", "o", "n", "s">>

\* a do_GET that sends the status line and the headers before it reads
\* iterations
AfterRespondFirst(pc) ==
    CASE pc = "parse_qs"      -> "send_response"
      [] pc = "send_response" -> "send_header"
      [] pc = "send_header"   -> "end_headers"
      [] pc = "end_headers"   -> "int"
      [] pc = "int"           -> "calc_pi"
      [] pc = "calc_pi"       -> "write"
      [] pc = "write"         -> "return"

\* a do_GET that calls calc_pi first and sends the whole response after it
AfterComputeFirst(pc) ==
    CASE pc = "parse_qs"      -> "int"
      [] pc = "int"           -> "calc_pi"
      [] pc = "calc_pi"       -> "send_response"
      [] pc = "send_response" -> "send_header"
      [] pc = "send_header"   -> "end_headers"
      [] pc = "end_headers"   -> "write"
      [] pc = "write"         -> "return"

\* a do_GET without line 16, the call of end_headers
AfterNoEndHeaders(pc) ==
    CASE pc = "parse_qs"      -> "int"
      [] pc = "int"           -> "send_response"
      [] pc = "send_response" -> "send_header"
      [] pc = "send_header"   -> "calc_pi"
      [] pc = "calc_pi"       -> "write"
      [] pc = "write"         -> "return"

\* the order of do_GET's steps: lines 10, 11, 14, 15, 16, then line 17's
\* call of calc_pi (left through CalcPiReturn) and its wfile.write
After(pc) ==
    CASE pc = "parse_qs"      -> "int"
      [] pc = "int"           -> "send_response"
      [] pc = "send_response" -> "send_header"
      [] pc = "send_header"   -> "end_headers"
      [] pc = "end_headers"   -> "calc_pi"
      [] pc = "calc_pi"       -> "write"
      [] pc = "write"         -> "return"

\* line 10
QueryComponents(path) == parse_qs(UrlQuery(path))

\* a do_GET that falls back to the default when int() raises
IterationsOfFallback(qc) ==
    LET vals == ValuesOf(qc, Iterations)
    IN  IF vals = <<>> \/ ~IntOfStr(vals[1]).ok
        THEN [ok |-> TRUE, val |-> DefaultIterations]
        ELSE IntOfStr(vals[1])

\* a do_GET that takes the last value of the list ([-1] for [0])
IterationsOfLast(qc) ==
    LET vals == ValuesOf(qc, Iterations)
    IN  IF vals = <<>> THEN [ok |-> TRUE, val |-> DefaultIterations]
        ELSE IntOfStr(vals[Len(vals)])

\* line 11: query_components.get('iterations', [1])[0], then int of it;
\* ok = FALSE is the ValueError of int
IterationsOf(qc) ==
    LET vals == ValuesOf(qc, Iterations)
    IN  IF vals = <<>> THEN [ok |-> TRUE, val |-> DefaultIterations]
        ELSE IntOfStr(vals[1])

\* line 14: send_response(200) puts the status line and the Server and Date
\* headers into the headers buffer
StatusLines ==
    <<Item("status", "200"), Item("header", "Server"), Item("header", "Date")>>

\* line 15
ContentType == Item("header", "Content-type: text/plain")

\* line 17: str(...).encode()
BodyOf(v) == Item("body", FRepr(v))

(* lines 31-34: the server *)

\* a server that accepts while a request is being handled
\* (socketserver.ThreadingTCPServer)
ServerReadyAlways == TRUE

\* socketserver.TCPServer handles a request inside serve_forever's loop:
\* it accepts the next connection only once finish_request and
\* shutdown_request of the previous one have returned
ServerReady == cur = 0

Connect(targets, limit) ==
    /\ Len(req) < limit
    /\ \E t \in targets :
          req' = Append(req, NewRequest(t))
    /\ backlog' = Append(backlog, Len(req) + 1)
    /\ UNCHANGED cur

\* get_request, process_request: the handler is constructed and reads the
\* request line; do_GET is about to run
Accept ==
    /\ ServerReady
    /\ backlog # <<>>
    /\ cur' = Head(backlog)
    /\ backlog' = Tail(backlog)
    /\ req' = [req EXCEPT ![Head(backlog)].st = "handling",
                          ![Head(backlog)].pc = "parse_qs"]

At(r, pc) == r \in 1..Len(req) /\ req[r].st = "handling" /\ req[r].pc = pc

\* line 10
ParseQs(r) ==
    /\ At(r, "parse_qs")
    /\ req' = [req EXCEPT ![r].query_components = QueryComponents(req[r].target),
                          ![r].pc = After("parse_qs")]
    /\ UNCHANGED <<backlog, cur>>

\* line 11
GetIterations(r) ==
    /\ At(r, "int")
    /\ LET it == IterationsOf(req[r].query_components)
       IN  req' = IF it.ok
                  THEN [req EXCEPT ![r].iterations = it.val, ![r].pc = After("int")]
                  ELSE [req EXCEPT ![r].raised = "ValueError", ![r].pc = "raised"]
    /\ UNCHANGED <<backlog, cur>>

\* line 14
SendResponse(r) ==
    /\ At(r, "send_response")
    /\ req' = [req EXCEPT ![r].headers_buffer = @ \o StatusLines,
                          ![r].pc = After("send_response")]
    /\ UNCHANGED <<backlog, cur>>

\* line 15
SendHeader(r) ==
    /\ At(r, "send_header")
    /\ req' = [req EXCEPT ![r].headers_buffer = Append(@, ContentType),
                          ![r].pc = After("send_header")]
    /\ UNCHANGED <<backlog, cur>>

\* line 16: the blank line ends the headers, the buffer is written out
EndHeaders(r) ==
    /\ At(r, "end_headers")
    /\ req' = [req EXCEPT ![r].wire = @ \o req[r].headers_buffer
                                        \o <<Item("end_headers", "")>>,
                          ![r].headers_buffer = <<>>,
                          ![r].pc = After("end_headers")]
    /\ UNCHANGED <<backlog, cur>>

\* line 17, the call; lines 20-21
CalcPiCall(r) ==
    /\ At(r, "calc_pi")
    /\ req' = [req EXCEPT ![r].frame = CalcPiInit(req[r].iterations),
                          ![r].calls = @ + 1,
                          ![r].pc = "loop"]
    /\ UNCHANGED <<backlog, cur>>

\* lines 22-27
CalcPiLoop(r) ==
    /\ At(r, "loop")
    /\ CalcPiMore(req[r].frame)
    /\ req' = [req EXCEPT ![r].frame = CalcPiBody(req[r].frame)]
    /\ UNCHANGED <<backlog, cur>>

\* line 22 with range exhausted, lines 28-29
CalcPiReturn(r) ==
    /\ At(r, "loop")
    /\ ~CalcPiMore(req[r].frame)
    /\ req' = [req EXCEPT ![r].result = CalcPiResult(req[r].frame),
                          ![r].frame.live = FALSE,
                          ![r].pc = After("calc_pi")]
    /\ UNCHANGED <<backlog, cur>>

\* line 17: wfile.write
Write(r) ==
    /\ At(r, "write")
    /\ req' = [req EXCEPT ![r].wire = Append(@, BodyOf(req[r].result)),
                          ![r].pc = After("write")]
    /\ UNCHANGED <<backlog, cur>>

\* do_GET has returned, or raised (handle_error); shutdown_request closes
\* the connection and the server is back in serve_forever's loop
Finish(r) ==
    /\ At(r, "return") \/ At(r, "raised")
    /\ req' = [req EXCEPT ![r].st = "closed"]
    /\ cur' = IF cur = r THEN 0 ELSE cur
    /\ UNCHANGED backlog

ConnIds == 1..MaxRequests

Handle ==
    \E r \in ConnIds :
        \/ ParseQs(r)
        \/ GetIterations(r)
        \/ SendResponse(r)
        \/ SendHeader(r)
        \/ EndHeaders(r)
        \/ CalcPiCall(r)
        \/ CalcPiLoop(r)
        \/ CalcPiReturn(r)
        \/ Write(r)
        \/ Finish(r)

Init ==
    /\ req = <<>>
    /\ backlog = <<>>
    /\ cur = 0

(***************************************************************************)
(* The requests.  Three input domains, one specification each:             *)
(*   Spec         a few targets, several connections, to observe the       *)
(*                server across requests;                                  *)
(*   SpecRequest  one connection, its target any path with any query of    *)
(*                at most MaxPairs fields, to observe the parsing;         *)
(*   SpecCalc     one connection with ?iterations=n for                    *)
(*                -MaxNeg <= n <= MaxIter, to observe calc_pi.             *)
(***************************************************************************)
Paths == {<<"/">>, <<"/", "p", "i">>}

\* raw values of a field: empty, integers, " 2" and "+3" in their encoded
\* forms, and strings int() rejects
RawValues ==
    {<<>>, <<"0">>, <<"1">>, <<"3">>, <<"-", "2">>, <<"+", "2">>,
     <<"%", "2", "B", "3">>, <<"a">>, <<"1", ".", "5">>}

\* the fields of a query: iterations with each raw value, iterations without
\* "=", and another key
Fields ==
    {Iterations \o <<"=">> \o v : v \in RawValues}
        \cup {Iterations, <<"x", "=", "1">>}

RECURSIVE QueriesOf(_)
QueriesOf(k) ==
    IF k = 0 THEN {<<>>}
    ELSE LET shorter == QueriesOf(k - 1)
         IN  shorter \cup Fields
             \cup {q \o <<"&">> \o f : q \in shorter \ {<<>>}, f \in Fields}

RequestTargets ==
    Paths \cup {p \o <<"?">> \o q : p \in Paths, q \in QueriesOf(MaxPairs)}

RECURSIVE NatChars(_)
NatChars(n) ==
    IF n < 10 THEN <<DigitChar[n + 1]>>
    ELSE Append(NatChars(n \div 10), DigitChar[(n % 10) + 1])

IntChars(n) == IF n < 0 THEN <<"-">> \o NatChars(0 - n) ELSE NatChars(n)

CalcTargets ==
    {<<"/", "?">> \o Iterations \o <<"=">> \o IntChars(n) : n \in (0 - MaxNeg)..MaxIter}

ServerTargets ==
    {p \o q : p \in Paths,
              q \in {<<>>,
                     <<"?">> \o Iterations \o <<"=", "2">>,
                     <<"?">> \o Iterations \o <<"=", "a">>}}

ConnectServer == Connect(ServerTargets, MaxRequests)

ConnectRequest == Connect(RequestTargets, 1)

ConnectCalc == Connect(CalcTargets, 1)

Next == ConnectServer \/ Accept \/ Handle

NextRequest == ConnectRequest \/ Accept \/ Handle

NextCalc == ConnectCalc \/ Accept \/ Handle

Spec == Init /\ [][Next]_vars

SpecRequest == Init /\ [][NextRequest]_vars

\* the server's one thread keeps running: a step that stays possible is taken
SpecCalc == Init /\ [][NextCalc]_vars /\ WF_vars(Accept) /\ WF_vars(Handle)

(***************************************************************************)
(* Part 5.  The properties.  What a request's query string holds is read   *)
(* off the target itself, field by field, not off the handler's            *)
(* dictionary.                                                             *)
(***************************************************************************)
Conns == 1..Len(req)

Closed(r) == req[r].st = "closed"

\* do_GET has run past line 11 for r
Extracted(r) ==
    req[r].st \in {"handling", "closed"} /\ req[r].pc \notin {"parse_qs", "int"}

HasItem(w, kind) == \E i \in 1..Len(w) : w[i].kind = kind

Count(w, item) == Cardinality({i \in 1..Len(w) : w[i] = item})

Status200(w) == \E i \in 1..Len(w) : w[i] = Item("status", "200")

BodyText(w) ==
    IF HasItem(w, "body")
    THEN w[CHOOSE i \in 1..Len(w) : w[i].kind = "body"].text
    ELSE "<none>"

\* the fields of the query string of target t, as they stand in it
QueryFields(t) ==
    Bind(UrlQuery(t), LAMBDA q : IF q = <<>> THEN <<>> ELSE Split(q, "&"))

FieldName(f) == Unquote(PlusToSpace(Split1(f, "=")[1]))

FieldValue(f) ==
    Bind(Split1(f, "="), LAMBDA nv :
        IF Len(nv) = 2 THEN Unquote(PlusToSpace(nv[2])) ELSE <<>>)

\* a field "iterations=value" (a field without "=" carries no value and is
\* not counted as an occurrence of the key)
IsOccurrence(f) == Len(Split1(f, "=")) = 2 /\ FieldName(f) = Iterations

\* the values of the occurrences of the iterations key in t, in order
Occurrences(t) ==
    Bind(SelectSeq(QueryFields(t), IsOccurrence), LAMBDA fs :
        [i \in 1..Len(fs) |-> FieldValue(fs[i])])

NonEmpty(v) == v # <<>>

FilledOccurrences(t) == SelectSeq(Occurrences(t), NonEmpty)

\* the iterations value of t is one that int() rejects
Unparsable(t) ==
    Bind(FilledOccurrences(t), LAMBDA vs : vs # <<>> /\ ~IntOfStr(vs[1]).ok)

\* C1, as claimed: every request that do_GET has handled got the status
\* line 200, whatever its path and its query string.
C1_AlwaysStatus200 ==
    \A r \in Conns : Closed(r) => Status200(req[r].wire)

\* C1, amended: a handled request got the status line 200 exactly if its
\* iterations value is absent, empty or accepted by int(); a request whose
\* value int() rejects got no status line, nor anything else.
C1_Status200UnlessUnparsable ==
    \A r \in Conns :
        Closed(r) =>
            /\ Status200(req[r].wire) <=> ~Unparsable(req[r].target)
            /\ Unparsable(req[r].target) => req[r].wire = <<>>

C1_Witness ==
    \E r \in Conns :
        /\ Closed(r)
        /\ Status200(req[r].wire)
        /\ Len(Occurrences(req[r].target)) > 0
        /\ req[r].target[2] = "p"

RECURSIVE LeibnizSum(_)
LeibnizSum(n) ==
    IF n <= 0 THEN FZero(0)
    ELSE FAdd(LeibnizSum(n - 1),
              FDiv(FFromInt(IF (n - 1) % 2 = 0 THEN 1 ELSE 0 - 1),
                   FFromInt(2 * (n - 1) + 1)))

FourTimesLeibniz(n) == FMul(FFromInt(4), LeibnizSum(n))

\* the complete response with the given body
ResponseWith(text) ==
    <<Item("status", "200"), Item("header", "Server"), Item("header", "Date"),
      Item("header", "Content-type: text/plain"), Item("end_headers", ""),
      Item("body", text)>>

\* what do_GET does with the default
DefaultOutcome(r) ==
    /\ req[r].raised = ""
    /\ req[r].iterations = 1
    /\ req[r].calls > 0 => req[r].frame.iterations = 1
    /\ Closed(r) => req[r].wire = ResponseWith("4.0")

\* what do_GET does when it is the string v that goes to int()
ParsedOutcome(r, v) ==
    Bind(IntOfStr(v), LAMBDA n :
        IF n.ok
        THEN /\ req[r].raised = ""
             /\ req[r].iterations = n.val
             /\ req[r].calls > 0 => req[r].frame.iterations = n.val
        ELSE /\ req[r].raised = "ValueError"
             /\ req[r].calls = 0)

\* the response that the value v alone determines
ResponseFor(v) ==
    Bind(IntOfStr(v), LAMBDA n :
        IF n.ok THEN ResponseWith(FRepr(FourTimesLeibniz(n.val))) ELSE <<>>)

\* C3, as claimed: if the iterations key is present in the query string its
\* value goes to int() and on to calc_pi; if it is absent the default 1 is
\* used and the response is 200 with the body "4.0".
C3_PresentParsedAbsentDefault ==
    \A r \in Conns :
        Extracted(r) =>
            Bind(Occurrences(req[r].target), LAMBDA vs :
                IF vs = <<>> THEN DefaultOutcome(r) ELSE ParsedOutcome(r, vs[1]))

\* C3, amended: if the iterations key is present with a non-empty value, the
\* first such value goes to int() and on to calc_pi; if the key is absent or
\* has only empty values (iterations=), the
\* default 1 is used and the response is 200 with the body "4.0".
C3_FilledParsedElseDefault ==
    \A r \in Conns :
        Extracted(r) =>
            Bind(FilledOccurrences(req[r].target), LAMBDA vs :
                IF vs = <<>> THEN DefaultOutcome(r) ELSE ParsedOutcome(r, vs[1]))

C3_Witness ==
    \E r \in Conns :
        /\ Closed(r)
        /\ Len(Occurrences(req[r].target)) = 1
        /\ FilledOccurrences(req[r].target) = <<>>
        /\ req[r].wire = ResponseWith("4.0")

\* C4, as claimed: when the iterations key occurs more than once, the
\* request is handled as if its first occurrence were the only one: that
\* occurrence's value is what is parsed and passed to calc_pi (the default
\* if it is empty), and the later occurrences change neither the status nor
\* the body.
C4_FirstOccurrenceUsed ==
    \A r \in Conns :
        Extracted(r) =>
            Bind(Occurrences(req[r].target), LAMBDA vs :
                Len(vs) >= 2 =>
                    IF vs[1] = <<>>
                    THEN DefaultOutcome(r)
                    ELSE /\ ParsedOutcome(r, vs[1])
                         /\ Closed(r) => req[r].wire = ResponseFor(vs[1]))

\* C4, amended: when the iterations key occurs more than once, the value
\* that is parsed and passed to calc_pi is that of its first occurrence with
\* a non-empty value, and the response is the one that value alone
\* determines; if every occurrence is empty the default 1 is used.
C4_FirstFilledOccurrenceUsed ==
    \A r \in Conns :
        Extracted(r) =>
            Bind(Occurrences(req[r].target), LAMBDA vs :
                Len(vs) >= 2 =>
                    Bind(SelectSeq(vs, NonEmpty), LAMBDA filled :
                        IF filled = <<>>
                        THEN DefaultOutcome(r)
                        ELSE /\ ParsedOutcome(r, filled[1])
                             /\ Closed(r) => req[r].wire = ResponseFor(filled[1])))

C4_Witness ==
    \E r \in Conns :
        /\ Closed(r)
        /\ Len(FilledOccurrences(req[r].target)) = 2
        /\ IntOfStr(FilledOccurrences(req[r].target)[1]).ok
        /\ IntOfStr(FilledOccurrences(req[r].target)[1]).val = 3
        /\ IntOfStr(FilledOccurrences(req[r].target)[2]).ok
        /\ IntOfStr(FilledOccurrences(req[r].target)[2]).val = 1
        /\ BodyText(req[r].wire) = "3.466666666666667"

\* the integer that the iterations value of t parses to (the default if the
\* key is absent or empty); meaningful when the value is not Unparsable
ParsedIterations(t) ==
    IF FilledOccurrences(t) = <<>> THEN 1
    ELSE IntOfStr(FilledOccurrences(t)[1]).val

\* C5: a request whose iterations value parses to zero or to a negative
\* integer is no error: the loop of calc_pi makes no pass, calc_pi returns
\* 0.0, and the response is 200 with the body "0.0", for every negative value
\* as for zero.
C5_NonPositiveGivesZero ==
    \A r \in Conns :
        (~Unparsable(req[r].target) /\ ParsedIterations(req[r].target) <= 0) =>
            /\ req[r].raised = ""
            /\ req[r].frame.x = 0
            /\ req[r].pc \in {"write", "return"} => req[r].result = FZero(0)
            /\ Closed(r) => req[r].wire = ResponseWith("0.0")

C5_Witness ==
    \E r \in Conns :
        /\ Closed(r)
        /\ req[r].iterations < 0
        /\ req[r].calls = 1
        /\ BodyText(req[r].wire) = "0.0"

\* C6: for every n >= 0, calc_pi(n) is 4 times the n-term Leibniz partial
\* sum, the terms (-1)^k / (2k+1) accumulated for k = 0, 1, ... in this
\* order, the denominator being 2k+1 after k terms; calc_pi(0) = 0.0,
\* calc_pi(1) = 4.0, calc_pi(2) = 4 - 4/3.
C6_CalcPiIsFourTimesLeibniz ==
    \A r \in Conns :
        /\ req[r].frame.live =>
              /\ req[r].frame.x >= 0
              /\ req[r].frame.pi = LeibnizSum(req[r].frame.x)
              /\ req[r].frame.denominator = FFromInt(2 * req[r].frame.x + 1)
        /\ (req[r].pc \in {"write", "return"} /\ req[r].iterations >= 0) =>
              /\ req[r].result = FourTimesLeibniz(req[r].iterations)
              /\ req[r].iterations = 0 => req[r].result = FZero(0)
              /\ req[r].iterations = 1 => req[r].result = FFromInt(4)
              /\ req[r].iterations = 2 =>
                    req[r].result = FSub(FFromInt(4), FDiv(FFromInt(4), FFromInt(3)))

C6_Witness ==
    \E r \in Conns :
        /\ req[r].pc = "write"
        /\ req[r].iterations = MaxIter
        /\ req[r].frame.x = MaxIter
        /\ req[r].result = FourTimesLeibniz(MaxIter)

\* what a client got: the status and the body
Response(r) == [status |-> Status200(req[r].wire), body |-> BodyText(req[r].wire)]

\* C7: the response is a function of the request's query string alone: any
\* two handled requests with the same query string got the same status and
\* the same body, whatever their paths and whatever was handled before them.
C7_ResponseDependsOnQueryOnly ==
    \A r1 \in Conns, r2 \in Conns :
        (Closed(r1) /\ Closed(r2)
            /\ UrlQuery(req[r1].target) = UrlQuery(req[r2].target)) =>
                Response(r1) = Response(r2)

C7_Witness ==
    \E r1 \in Conns, r2 \in Conns :
        /\ r1 < r2
        /\ Closed(r1) /\ Closed(r2)
        /\ UrlQuery(req[r1].target) = UrlQuery(req[r2].target)
        /\ req[r1].target # req[r2].target
        /\ BodyText(req[r2].wire) = "2.666666666666667"

\* C8: the server handles one connection at a time: a connection is accepted
\* only when every connection accepted before it has been closed, so no two
\* requests are ever being handled together.
C8_OneRequestAtATime ==
    \A r1 \in Conns, r2 \in Conns :
        (r1 < r2 /\ req[r2].st \in {"handling", "closed"}) => Closed(r1)

C8_Witness ==
    \E r1 \in Conns, r2 \in Conns :
        /\ req[r1].st = "handling"
        /\ req[r1].pc = "loop"
        /\ req[r2].st = "queued"

\* calc_pi has been called and has returned for r
Returned(r) == req[r].calls > 0 /\ ~req[r].frame.live

Emitted(r) == req[r].headers_buffer \o req[r].wire

\* C9, as claimed: no part of the response (status line, Content-Type header,
\* body) is emitted before calc_pi has returned.
C9_NothingEmittedBeforeCalcPi ==
    \A r \in Conns : Emitted(r) # <<>> => Returned(r)

\* C9, amended: do_GET parses the query string, extracts iterations, emits
\* the status line, the Content-Type header and the end of the headers, then
\* calls calc_pi, then emits the body: nothing is emitted before iterations
\* is extracted, the status line and the headers are on the wire before
\* calc_pi is called, and the body is emitted only after calc_pi has
\* returned.
C9_HeadersThenCalcPiThenBody ==
    \A r \in Conns :
        /\ Emitted(r) # <<>> => Extracted(r)
        /\ req[r].calls > 0 =>
              /\ Status200(req[r].wire)
              /\ Count(req[r].wire, ContentType) = 1
              /\ HasItem(req[r].wire, "end_headers")
        /\ HasItem(Emitted(r), "body") => Returned(r)

C9_Witness ==
    \E r \in Conns :
        /\ req[r].frame.live
        /\ req[r].frame.x = 1
        /\ Status200(req[r].wire)
        /\ ~HasItem(req[r].wire, "body")

Max(a, b) == IF a >= b THEN a ELSE b

Position(w, kind) == CHOOSE i \in 1..Len(w) : w[i].kind = kind

CountKind(w, kind) == Cardinality({i \in 1..Len(w) : w[i].kind = kind})

\* r has run to completion as claimed
Completed(r) ==
    /\ Closed(r)
    /\ req[r].calls = 1
    /\ req[r].frame.x = Max(ParsedIterations(req[r].target), 0)
    /\ req[r].headers_buffer = <<>>
    /\ CountKind(req[r].wire, "status") = 1
    /\ Count(req[r].wire, Item("status", "200")) = 1
    /\ Count(req[r].wire, ContentType) = 1
    /\ CountKind(req[r].wire, "end_headers") = 1
    /\ CountKind(req[r].wire, "body") = 1
    /\ Position(req[r].wire, "status") = 1
    /\ \A i \in 1..Len(req[r].wire) :
          req[r].wire[i].kind = "header" => i < Position(req[r].wire, "end_headers")
    /\ Position(req[r].wire, "end_headers") + 1 = Position(req[r].wire, "body")
    /\ Position(req[r].wire, "body") = Len(req[r].wire)
    /\ BodyText(req[r].wire) = FRepr(req[r].result)
    /\ req[r].result = FourTimesLeibniz(ParsedIterations(req[r].target))

\* C10: every request whose iterations value parses as an integer n runs to
\* completion: the loop makes exactly max(n, 0) passes and stops, and the
\* handler has then emitted once each, in this order, the status line 200,
\* the Content-Type header, the end of the headers and the body, the decimal
\* string of the float, with nothing after it.
C10_ParsableRunsToCompletion ==
    \A r \in ConnIds :
        (r \in Conns /\ ~Unparsable(req[r].target)) ~> (r \in Conns /\ Completed(r))

C10_Witness ==
    \E r \in Conns :
        /\ Completed(r)
        /\ req[r].frame.x = MaxIter
        /\ req[r].iterations = MaxIter

=============================================================================
